---- MODULE Spec2Model ----
(***************************************************************************)
(* A model of duplicates.py: the directory walk (FileBrowser), the pooled  *)
(* md5 fingerprinting (FileFoundHandler) and the duplicate scan with       *)
(* optional deletion (Data.check_for_duplicates).                          *)
(*                                                                         *)
(* Storage is a set of directories, each a listing (in os.listdir order)   *)
(* of entries.  An entry names a regular file (with its content) or a      *)
(* directory; a directory may be named by several entries, which is what a *)
(* symbolic link to a directory looks like to os.path.isdir / os.listdir.  *)
(* A path is the sequence of names joined by os.path.join below the root.  *)
(***************************************************************************)
EXTENDS Integers, Sequences, FiniteSets, TLC

\* ------------------------------------------------------------------ bounds
MaxFiles == 3       \* file entries in the whole tree
MaxVanish == 1      \* files an outside process removes while hashing runs
CpuCount == 2       \* cpu_count(): processes of the pool

DirIds == {0, 1, 2}                 \* 0 is the root given to FileBrowser
FileNames == {"a.txt", "b.log"}
DirNames == {"s", "l"}
Contents == {"X", "Y", "Z"}

\* ------------------------------------------------------------------ state
VARIABLES
    entries,        \* storage: directory id -> its listing
    listing,        \* directory id -> "ok" | "denied" | "ioerror" (what os.listdir does)
    writable,       \* directory id -> whether entries may be unlinked from it
    name_regex,     \* argument of process_files: "none" | "pattern" | "notpattern"
    delete,         \* argument of check_for_duplicates
    pc,             \* where main() is
    error,          \* the exception that ended the run, "none" while there is none
    found_files,    \* FileFoundHandler._found_files
    warned,         \* directories reported "[Error] Permission denied to"
    workers,        \* the AsyncResults of get_files_list, in submission order
    ready_results,  \* ready_results of get_files_list
    cache,          \* FileFoundHandler._cache
    items,          \* Data._items
    files_list,     \* the list check_for_duplicates was handed (<<>> for None)
    data_sorted,    \* data_sorted of check_for_duplicates
    i,              \* loop index of check_for_duplicates (1-based)
    count,          \* count of check_for_duplicates
    wasted_space,   \* wasted_space of check_for_duplicates
    reported,       \* the "Duplicate found!" lines printed: the two paths and the size
    removed,        \* the paths os.remove was called on successfully
    summary,        \* the Summary line, <<>> until printed
    vanished,       \* number of files removed by an outside process
    overtaken       \* whether some task finished before one submitted earlier

vars == <<entries, listing, writable, name_regex, delete, pc, error, found_files,
          warned, workers, ready_results, cache, items, files_list, data_sorted, i,
          count, wasted_space, reported, removed, summary, vanished, overtaken>>

\* ---------------------------------------------------------------- storage
FileEntry(n, c) == [name |-> n, kind |-> "file", content |-> c, dir |-> 0]
DirEntry(n, d) == [name |-> n, kind |-> "dir", content |-> "", dir |-> d]

\* hashlib.md5(...).hexdigest() of a content, as a number ordered like the hex
\* string; "X" and "Z" are two contents with one digest (a collision).
Md5(c) == CASE c = "X" -> 2 [] c = "Y" -> 1 [] c = "Z" -> 2 [] OTHER -> 0

\* os.path.getsize of a file with that content
SizeOf(c) == CASE c = "X" -> 1 [] c = "Y" -> 2 [] c = "Z" -> 4 [] OTHER -> 0

HasName(fs, d, n) == \E k \in 1..Len(fs[d]) : fs[d][k].name = n
EntryNamed(fs, d, n) == fs[d][CHOOSE k \in 1..Len(fs[d]) : fs[d][k].name = n]

\* The directory a path of directory names leads to from directory d, -1 if none.
RECURSIVE DirAt(_, _, _)
DirAt(fs, d, path) ==
    IF path = <<>> THEN d
    ELSE IF ~HasName(fs, d, Head(path)) THEN -1
    ELSE LET e == EntryNamed(fs, d, Head(path)) IN
         IF e.kind = "dir" THEN DirAt(fs, e.dir, Tail(path)) ELSE -1

Front(path) == SubSeq(path, 1, Len(path) - 1)
Last(path) == path[Len(path)]
ParentOf(fs, path) == IF path = <<>> THEN -1 ELSE DirAt(fs, 0, Front(path))

\* os.path.isfile(path)
IsFile(fs, path) ==
    LET d == ParentOf(fs, path) IN
    /\ d # -1
    /\ HasName(fs, d, Last(path))
    /\ EntryNamed(fs, d, Last(path)).kind = "file"

ContentAt(fs, path) == EntryNamed(fs, ParentOf(fs, path), Last(path)).content

RECURSIVE Without(_, _)
Without(list, n) ==
    IF list = <<>> THEN <<>>
    ELSE IF Head(list).name = n THEN Tail(list)
    ELSE <<Head(list)>> \o Without(Tail(list), n)

\* Storage after the entry a path names is unlinked from its directory.
Unlinked(fs, path) ==
    LET d == ParentOf(fs, path) IN [fs EXCEPT ![d] = Without(fs[d], Last(path))]

\* os.remove(path): "ok", or the exception it raises
RemoveOutcome(fs, path) ==
    IF ~IsFile(fs, path) THEN "FileNotFoundError"
    ELSE IF ~writable[ParentOf(fs, path)] THEN "PermissionError"
    ELSE "ok"

\* ----------------------------------------------------------------- walker
\* name_regex.match(file_name): the pattern used here is one matching names
\* that begin with "a" (re.match anchors at the start of the string).
Matches(s) == s = "a.txt"

\* the filter applied to the joined path instead of the base name: re.match
\* then meets the first component of the path first
SelectedByPath(file_plus_path, file_name) ==
    IF name_regex = "none" THEN TRUE ELSE Matches(Head(file_plus_path))

\* lines 98-102: whether a regular file is handed to the handler
Selected(file_plus_path, file_name) ==
    IF name_regex = "none" THEN TRUE ELSE Matches(file_name)

NoResult == [found |-> <<>>, warned |-> <<>>, raised |-> FALSE]

RECURSIVE _process_files(_, _), ListingLoop(_, _, _, _)

\* the for loop of _process_files from entry k on, acc being what was done so far
ListingLoop(d, directory_path, k, acc) ==
    IF k > Len(entries[d]) THEN acc
    ELSE LET e == entries[d][k]
             file_plus_path == Append(directory_path, e.name)
         IN  IF e.kind = "file"
             THEN IF Selected(file_plus_path, e.name)
                  THEN ListingLoop(d, directory_path, k + 1,
                                   [acc EXCEPT !.found = Append(@, file_plus_path)])
                  ELSE ListingLoop(d, directory_path, k + 1, acc)
             ELSE LET r == _process_files(e.dir, file_plus_path)
                      acc2 == [found |-> acc.found \o r.found,
                               warned |-> acc.warned \o r.warned,
                               raised |-> r.raised]
                  IN  IF r.raised THEN acc2
                      ELSE ListingLoop(d, directory_path, k + 1, acc2)

\* _process_files without its except clause: a denied listing raises like any
\* other error
_process_files_uncaught(d, directory_path) ==
    IF listing[d] # "ok"
    THEN [found |-> <<>>, warned |-> <<>>, raised |-> TRUE]
    ELSE ListingLoop(d, directory_path, 1, NoResult)

\* FileBrowser._process_files: what it hands to the handler, the directories it
\* reports as denied, and whether an exception left it.
_process_files(d, directory_path) ==
    IF listing[d] = "denied"
    THEN [found |-> <<>>, warned |-> <<directory_path>>, raised |-> FALSE]
    ELSE IF listing[d] = "ioerror"
    THEN [found |-> <<>>, warned |-> <<>>, raised |-> TRUE]
    ELSE ListingLoop(d, directory_path, 1, NoResult)

\* ---------------------------------------------------------- fingerprinting
NoItem(path) == [path |-> path, md5 |-> 0, metadata |-> [size |-> 0]]

\* FileFoundHandler._do_work(path) on storage fs: the Item, or the exception
\* open() / os.path.getsize raise for a path that is no longer a file.
_do_work(fs, path) ==
    IF IsFile(fs, path)
    THEN [state |-> "done", path |-> path,
          item |-> [path |-> path, md5 |-> Md5(ContentAt(fs, path)),
                    metadata |-> [size |-> SizeOf(ContentAt(fs, path))]]]
    ELSE [state |-> "failed", path |-> path, item |-> NoItem(path)]

\* the submit loop with every task bound to the last value of file_path
SubmittedLateBinding(found) ==
    [k \in 1..Len(found) |->
        [state |-> "queued", path |-> found[Len(found)], item |-> NoItem(found[Len(found)])]]

\* lines 173-175: one apply_async per found file, in the order found
Submitted(found) ==
    [k \in 1..Len(found) |-> [state |-> "queued", path |-> found[k], item |-> NoItem(found[k])]]

Running == {k \in 1..Len(workers) : workers[k].state = "running"}
Queued == {k \in 1..Len(workers) : workers[k].state = "queued"}

\* -------------------------------------------------------- duplicate search
\* an insertion that puts an item before the items of equal md5: a sort that
\* is not stable
RECURSIVE InsertBeforeEqual(_, _)
InsertBeforeEqual(sorted, item) ==
    IF sorted = <<>> THEN <<item>>
    ELSE IF Head(sorted).md5 < item.md5
         THEN <<Head(sorted)>> \o InsertBeforeEqual(Tail(sorted), item)
         ELSE <<item>> \o sorted

\* sorted(files_list, key=lambda item: item.md5): a stable sort, an item going
\* after every item already placed whose md5 is not greater.
RECURSIVE InsertByMd5(_, _)
InsertByMd5(sorted, item) ==
    IF sorted = <<>> THEN <<item>>
    ELSE IF Head(sorted).md5 <= item.md5
         THEN <<Head(sorted)>> \o InsertByMd5(Tail(sorted), item)
         ELSE <<item>> \o sorted

RECURSIVE SortedByMd5(_)
SortedByMd5(list) ==
    IF list = <<>> THEN <<>>
    ELSE InsertByMd5(SortedByMd5(Front(list)), Last(list))

\* line 217 with i > 1 for its i > 0
IsDuplicateAtOffByOne(sorted, k) == k > 2 /\ sorted[k].md5 = sorted[k - 1].md5

\* line 217: i > 0 and item_at_i.md5 == data_sorted[i - 1].md5 (k is i + 1)
IsDuplicateAt(sorted, k) == k > 1 /\ sorted[k].md5 = sorted[k - 1].md5

\* line 214: files_list or self._items; None and an empty list are both falsy
Effective(arg, cached) == IF arg = <<>> THEN cached ELSE arg

RECURSIVE Reverse(_)
Reverse(list) == IF list = <<>> THEN <<>> ELSE Append(Reverse(Tail(list)), Head(list))

\* ------------------------------------------------------------ initial state
DirNamesAt(d) == IF d = 0 THEN DirNames ELSE {"s"}

EntryChoices(d, dirs, contents) ==
    {FileEntry(n, c) : n \in FileNames, c \in contents}
        \cup {DirEntry(n, e) : n \in DirNamesAt(d), e \in {x \in dirs : x > d}}

NumFiles(list) == Cardinality({k \in 1..Len(list) : list[k].kind = "file"})

\* the place of a name in a listing that is in name order
Rank(n) == CASE n = "a.txt" -> 1 [] n = "b.log" -> 2 [] n = "l" -> 3 [] OTHER -> 4

\* the listings directory d may have: no name twice, subdirectories among dirs;
\* os.listdir returns the names in any order, or in name order when byname
Listings(d, dirs, contents, byname) ==
    LET choices == EntryChoices(d, dirs, contents)
        most == Cardinality(FileNames) + Cardinality(DirNamesAt(d))
    IN  {s \in UNION {[1..k -> choices] : k \in 0..most} :
            /\ \A a, b \in 1..Len(s) : a # b => s[a].name # s[b].name
            /\ byname => \A a, b \in 1..Len(s) : a < b => Rank(s[a].name) < Rank(s[b].name)
            /\ NumFiles(s) <= MaxFiles}

Refers(fs, d, e) == \E k \in 1..Len(fs[d]) : fs[d][k].kind = "dir" /\ fs[d][k].dir = e

\* directories that some chain of entries leads to from the root
Reachable(fs) ==
    LET one == {0} \cup {e \in DirIds : Refers(fs, 0, e)}
    IN  one \cup {e \in DirIds : \E d \in one : Refers(fs, d, e)}

\* entries is a tree of at most MaxFiles files, its directories among dirs, in
\* which only reachable directories have entries
TreeOver(dirs, contents, byname) ==
    /\ \E e0 \in Listings(0, dirs, contents, byname),
          e1 \in Listings(1, dirs, contents, byname),
          e2 \in Listings(2, dirs, contents, byname) :
          entries = [d \in DirIds |-> CASE d = 0 -> e0 [] d = 1 -> e1 [] OTHER -> e2]
    /\ NumFiles(entries[0]) + NumFiles(entries[1]) + NumFiles(entries[2]) <= MaxFiles
    /\ \A d \in DirIds : d \notin Reachable(entries) => entries[d] = <<>>

InitRun ==
    /\ pc = "start"
    /\ error = "none"
    /\ found_files = <<>>
    /\ warned = <<>>
    /\ workers = <<>>
    /\ ready_results = <<>>
    /\ cache = <<>>
    /\ items = <<>>
    /\ files_list = <<>>
    /\ data_sorted = <<>>
    /\ i = 0
    /\ count = 0
    /\ wasted_space = 0
    /\ reported = <<>>
    /\ removed = <<>>
    /\ summary = <<>>
    /\ vanished = 0
    /\ overtaken = FALSE

\* main(): any tree of the root and one subdirectory (reached by one or two
\* names) listed in name order, every directory listable, no name filter,
\* either value of --delete, any directory write-protected when deleting.
Init ==
    /\ TreeOver({0, 1}, Contents, TRUE)
    /\ listing = [d \in DirIds |-> "ok"]
    /\ delete \in BOOLEAN
    /\ writable \in [DirIds -> BOOLEAN]
    /\ \A d \in DirIds : (~delete \/ d \notin Reachable(entries)) => writable[d]
    /\ name_regex = "none"
    /\ InitRun

\* FileBrowser.process_files alone: any tree three directories deep, any outcome
\* of os.listdir per directory, any name_regex argument.
InitWalk ==
    /\ TreeOver(DirIds, {"X"}, FALSE)
    /\ listing \in [DirIds -> {"ok", "denied", "ioerror"}]
    /\ \A d \in DirIds : d \notin Reachable(entries) => listing[d] = "ok"
    /\ writable = [d \in DirIds |-> TRUE]
    /\ name_regex \in {"none", "pattern", "notpattern"}
    /\ delete = FALSE
    /\ InitRun

\* ------------------------------------------------------------------ actions
\* FileBrowser.process_files (lines 108-118) with FileFoundHandler.handle as the
\* handler: the whole walk, every handle() call included.
ProcessFiles ==
    /\ pc = "start"
    /\ IF name_regex = "notpattern"
       THEN /\ pc' = "crashed"
            /\ error' = "ValueError"
            /\ UNCHANGED <<found_files, warned>>
       ELSE LET r == _process_files(0, <<>>) IN
            /\ found_files' = r.found
            /\ warned' = r.warned
            /\ pc' = IF r.raised THEN "crashed" ELSE "indexed"
            /\ error' = IF r.raised THEN "OSError" ELSE "none"
    /\ UNCHANGED <<entries, listing, writable, name_regex, delete, workers,
                   ready_results, cache, items, files_list, data_sorted, i, count,
                   wasted_space, reported, removed, summary, vanished,
                   overtaken>>

\* get_files_list, lines 164-175: the cache is returned if there is one, else
\* every found file is submitted to the pool.
GetFilesList ==
    /\ pc = "indexed"
    /\ IF cache # <<>>
       THEN /\ items' = cache
            /\ pc' = "fingerprinted"
            /\ UNCHANGED <<workers, ready_results>>
       ELSE /\ workers' = Submitted(found_files)
            /\ ready_results' = <<>>
            /\ pc' = "hashing"
            /\ UNCHANGED items
    /\ UNCHANGED <<entries, listing, writable, name_regex, delete, error, found_files,
                   warned, cache, files_list, data_sorted, i, count, wasted_space,
                   reported, removed, summary, vanished,
                   overtaken>>

\* a free pool process takes the oldest task of the queue
WorkerStart ==
    /\ pc = "hashing"
    /\ Queued # {}
    /\ Cardinality(Running) < CpuCount
    /\ LET k == CHOOSE q \in Queued : \A r \in Queued : q <= r IN
       workers' = [workers EXCEPT ![k].state = "running"]
    /\ UNCHANGED <<entries, listing, writable, name_regex, delete, pc, error,
                   found_files, warned, ready_results, cache, items, files_list,
                   data_sorted, i, count, wasted_space, reported, removed, summary,
                   vanished,
                   overtaken>>

\* a pool process runs _do_work on its task; the processes finish in any order
WorkerFinish(k) ==
    /\ pc = "hashing"
    /\ k \in Running
    /\ workers' = [workers EXCEPT ![k] = _do_work(entries, workers[k].path)]
    /\ overtaken' = (overtaken \/ \E j \in Running : j < k)
    /\ UNCHANGED <<entries, listing, writable, name_regex, delete, pc, error,
                   found_files, warned, ready_results, cache, items, files_list,
                   data_sorted, i, count, wasted_space, reported, removed, summary,
                   vanished>>

\* an outside process removes a found file before the pool process that was
\* given it has opened it
FileVanishes(k) ==
    /\ pc = "hashing"
    /\ vanished < MaxVanish
    /\ k \in Running
    /\ IsFile(entries, workers[k].path)
    /\ entries' = Unlinked(entries, workers[k].path)
    /\ vanished' = vanished + 1
    /\ UNCHANGED <<listing, writable, name_regex, delete, pc, error, found_files,
                   warned, workers, ready_results, cache, items, files_list,
                   data_sorted, i, count, wasted_space, reported, removed, summary,
                   overtaken>>

\* lines 176-178: result.get() of the next AsyncResult, in submission order; it
\* returns the Item or re-raises the worker's exception, which nothing catches
\* (main catches KeyboardInterrupt only).
Collect ==
    /\ pc = "hashing"
    /\ Len(ready_results) < Len(workers)
    /\ LET w == workers[Len(ready_results) + 1] IN
       \/ /\ w.state = "done"
          /\ ready_results' = Append(ready_results, w.item)
          /\ UNCHANGED <<pc, error>>
       \/ /\ w.state = "failed"
          /\ pc' = "crashed"
          /\ error' = "FileNotFoundError"
          /\ UNCHANGED ready_results
    /\ UNCHANGED <<entries, listing, writable, name_regex, delete, found_files, warned,
                   workers, cache, items, files_list, data_sorted, i, count,
                   wasted_space, reported, removed, summary, vanished,
                   overtaken>>

\* lines 179-180 and 202: the results are cached, returned and kept as _items
GetFilesListReturn ==
    /\ pc = "hashing"
    /\ Len(ready_results) = Len(workers)
    /\ cache' = ready_results
    /\ items' = ready_results
    /\ pc' = "fingerprinted"
    /\ UNCHANGED <<entries, listing, writable, name_regex, delete, error, found_files,
                   warned, workers, ready_results, files_list, data_sorted, i, count,
                   wasted_space, reported, removed, summary, vanished,
                   overtaken>>

\* check_for_duplicates, lines 211-215: arg is files_list, <<>> when it is None
\* (as main calls it) and else a list of the caller's.
CheckForDuplicates(arg) ==
    /\ pc = "fingerprinted"
    /\ files_list' = Effective(arg, items)
    /\ data_sorted' = SortedByMd5(Effective(arg, items))
    /\ count' = 0
    /\ wasted_space' = 0
    /\ i' = 1
    /\ pc' = "scanning"
    /\ UNCHANGED <<entries, listing, writable, name_regex, delete, error, found_files,
                   warned, workers, ready_results, cache, items, reported, removed,
                   summary, vanished,
                   overtaken>>

\* one turn of the loop of lines 216-225
ScanStep ==
    /\ pc = "scanning"
    /\ i <= Len(data_sorted)
    /\ IF IsDuplicateAt(data_sorted, i)
       THEN LET item_at_i == data_sorted[i] IN
            /\ count' = count + 1
            /\ wasted_space' = wasted_space + item_at_i.metadata.size
            /\ reported' = Append(reported, [kept |-> data_sorted[i - 1].path,
                                             duplicate |-> item_at_i.path,
                                             size |-> item_at_i.metadata.size])
            /\ IF ~delete
               THEN /\ i' = i + 1
                    /\ UNCHANGED <<entries, removed, pc, error>>
               ELSE IF RemoveOutcome(entries, item_at_i.path) = "ok"
               THEN /\ entries' = Unlinked(entries, item_at_i.path)
                    /\ removed' = Append(removed, item_at_i.path)
                    /\ i' = i + 1
                    /\ UNCHANGED <<pc, error>>
               ELSE /\ pc' = "crashed"
                    /\ error' = RemoveOutcome(entries, item_at_i.path)
                    /\ UNCHANGED <<entries, removed, i>>
       ELSE /\ i' = i + 1
            /\ UNCHANGED <<entries, removed, pc, error, count, wasted_space, reported>>
    /\ UNCHANGED <<listing, writable, name_regex, delete, found_files, warned, workers,
                   ready_results, cache, items, files_list, data_sorted, summary,
                   vanished,
                   overtaken>>

\* line 226: the summary, after the last turn of the loop
Summary ==
    /\ pc = "scanning"
    /\ i > Len(data_sorted)
    /\ summary' = <<[duplicates |-> count, wasted |-> wasted_space]>>
    /\ pc' = "done"
    /\ UNCHANGED <<entries, listing, writable, name_regex, delete, error, found_files,
                   warned, workers, ready_results, cache, items, files_list,
                   data_sorted, i, count, wasted_space, reported, removed, vanished,
                   overtaken>>

Next ==
    \/ ProcessFiles
    \/ GetFilesList
    \/ WorkerStart
    \/ \E k \in 1..Len(workers) : WorkerFinish(k)
    \/ \E k \in 1..Len(workers) : FileVanishes(k)
    \/ Collect
    \/ GetFilesListReturn
    \/ CheckForDuplicates(<<>>)
    \/ CheckForDuplicates(Reverse(items))
    \/ ScanStep
    \/ Summary

Spec == Init /\ [][Next]_vars

NextWalk == ProcessFiles

SpecWalk == InitWalk /\ [][NextWalk]_vars

\* ------------------------------------------------------------------ claims
Md5sOf(list) == {list[k].md5 : k \in 1..Len(list)}
SetOf(list) == {list[k] : k \in 1..Len(list)}

\* the place of the first record of a list with md5 h: the keeper of h's group
FirstWith(list, h) ==
    CHOOSE k \in 1..Len(list) : list[k].md5 = h /\ \A j \in 1..(k - 1) : list[j].md5 # h

RecordOf(list, path) == list[CHOOSE k \in 1..Len(list) : list[k].path = path]

\* the sizes of the records up to place n that have an earlier record of their md5
RECURSIVE TailSizes(_, _)
TailSizes(list, n) ==
    IF n = 0 THEN 0
    ELSE TailSizes(list, n - 1)
         + (IF \E j \in 1..(n - 1) : list[j].md5 = list[n].md5
            THEN list[n].metadata.size ELSE 0)

ScanBegun == i >= 1
RemoveFailed == pc = "crashed" /\ ScanBegun

\* every path that may name a directory below the root, the root's being <<>>,
\* and every path that may name a regular file
DirPaths == {<<>>} \cup UNION {[1..k -> DirNames] : k \in 1..(Cardinality(DirIds) - 1)}
FilePaths == {Append(q, n) : q \in DirPaths, n \in FileNames}
Prefix(p, n) == SubSeq(p, 1, n)

\* the path names a directory and every directory above it can be listed
Visited(p) ==
    /\ DirAt(entries, 0, p) # -1
    /\ \A n \in 0..(Len(p) - 1) : listing[DirAt(entries, 0, Prefix(p, n))] = "ok"

\* the path names a regular file in a directory the walk lists
Listed(p) ==
    /\ Visited(Front(p))
    /\ listing[DirAt(entries, 0, Front(p))] = "ok"
    /\ IsFile(entries, p)

Wanted(p) == name_regex = "none" \/ Matches(Last(p))

\* C1: after check_for_duplicates has finished with delete enabled, of every
\* group of records sharing a content hash exactly the first member of the
\* sorted order still exists on storage.
C1_DeletionSafety ==
    (pc = "done" /\ delete) =>
        \A k \in 1..Len(data_sorted) :
            IsFile(entries, data_sorted[k].path)
                <=> (k = FirstWith(data_sorted, data_sorted[k].md5))

\* C2: in every state of a run, also one that stopped on an error and one over a
\* tree where two paths reach one stored file, every content hash among the
\* records still has a stored copy.
C2_KeeperSurvives ==
    ScanBegun =>
        \A k \in 1..Len(data_sorted) :
            \E j \in 1..Len(data_sorted) :
                /\ data_sorted[j].md5 = data_sorted[k].md5
                /\ IsFile(entries, data_sorted[j].path)

\* C3: a failure to remove one duplicate does not abort the run: the scan goes
\* on and the summary is produced.
C3_RemoveFailureDoesNotAbort == ~RemoveFailed

C5_ReportedKeptIsKeeper ==
    \A r \in 1..Len(reported) :
        reported[r].kept
            = data_sorted[FirstWith(data_sorted,
                                    RecordOf(data_sorted, reported[r].duplicate).md5)].path

\* C6: get_files_list returns exactly one record per found path, each computed
\* from the file at its path, in whatever order the pool's processes finish.
C6_OneRecordPerPath ==
    pc = "fingerprinted" =>
        /\ Len(items) = Len(found_files)
        /\ \A p \in SetOf(found_files) :
              Cardinality({k \in 1..Len(items) : items[k].path = p})
                  = Cardinality({k \in 1..Len(found_files) : found_files[k] = p})
        /\ \A k \in 1..Len(items) :
              /\ IsFile(entries, items[k].path)
              /\ items[k].md5 = Md5(ContentAt(entries, items[k].path))
              /\ items[k].metadata.size = SizeOf(ContentAt(entries, items[k].path))

C6_Witness ==
    /\ pc = "fingerprinted"
    /\ overtaken
    /\ Len(items) >= 3

\* C7: a file that vanishes between enumeration and hashing is never fatal to
\* the run.
C7_VanishedFileIsNotFatal == vanished > 0 => pc # "crashed"

\* C8: a directory whose listing is denied is skipped with a warning and the
\* walk hands over every wanted file of the directories it can list; the walk
\* is aborted by an exception exactly when a directory it comes to fails to
\* list for another reason.
C8_DeniedSubtreeSkipped ==
    (pc # "start" /\ name_regex # "notpattern") =>
        /\ (error = "OSError")
              <=> (\E p \in DirPaths : Visited(p) /\ listing[DirAt(entries, 0, p)] = "ioerror")
        /\ error = "none" =>
              /\ SetOf(found_files) = {p \in FilePaths : Listed(p) /\ Wanted(p)}
              /\ SetOf(warned)
                    = {p \in DirPaths : Visited(p) /\ listing[DirAt(entries, 0, p)] = "denied"}

\* a denied directory of the root, a file found in a sibling directory and a
\* file found in the root that is listed after the denied directory
C8_Witness ==
    /\ pc = "indexed"
    /\ \E w \in SetOf(warned), f, g \in SetOf(found_files) :
          /\ Len(w) = 1 /\ Len(f) = 2 /\ Len(g) = 1
          /\ \E a, b \in 1..Len(entries[0]) :
                a < b /\ entries[0][a].name = w[1] /\ entries[0][b].name = g[1]

====
